---- MODULE Spec2Model ----
(***************************************************************************)
(* recursive-vt.py: hash every regular file under a root directory, group  *)
(* the paths by SHA-256 digest (entityHandler), query VirusTotal once per  *)
(* entity with a fixed sleep after each query, then print a verdict per    *)
(* entity.                                                                 *)
(*                                                                         *)
(* The script is sequential.  pc is its position: "scan" (the glob loop),  *)
(* "query" (the loop of retrieve_virustotal_results), "report" (the final  *)
(* loop), "done", or "aborted" (an uncaught exception ended the process).  *)
(* log is the trace of the calls the script makes, in order.               *)
(***************************************************************************)
EXTENDS Integers, Sequences, FiniteSets, TLC

VARIABLES pc, i, hash_dict, waiting_time, log

vars == <<pc, i, hash_dict, waiting_time, log>>

(* ---- bounds ---- *)

\* number of directory entries glob yields in a run
MaxFiles == 6

\* number of add_file calls made on a bare entityHandler (SpecRegistry)
MaxAdds == 4

(* ---- the file system under FILE_PATH ---- *)

\* the paths glob yields, in the order it yields them
Paths == 1..MaxFiles

RECURSIVE Bytes(_)
\* the n-th byte string over {0,1}: <<>>, <<0>>, <<1>>, <<0,0>>, <<0,1>>, ...
Bytes(n) == IF n = 0 THEN <<>> ELSE Append(Bytes((n - 1) \div 2), (n - 1) % 2)

\* byte content of the file at path p; the last path repeats the content of
\* the first, all other contents are distinct
ContentOf(p) == Bytes((MaxFiles - 1 - p) % (MaxFiles - 1))

(* ---- simpleFile ---- *)

RECURSIVE sha256(_)
\* hashlib.sha256 fed the bytes in order; the block-wise update() calls of
\* calculate_hash feed the same byte stream.  Collision-free on the contents
\* of the model, as SHA-256 is taken to be.
sha256(bytes) ==
    IF bytes = <<>> THEN 0
    ELSE 3 * sha256(SubSeq(bytes, 1, Len(bytes) - 1)) + bytes[Len(bytes)] + 1

calculate_hash(file_name) == sha256(ContentOf(file_name))

simpleFile(file_name) == [file_name |-> file_name, hash |-> calculate_hash(file_name)]

(* ---- VirusTotal responses ---- *)

\* vt_result before any response was stored (the empty string)
NoResult == [kind |-> "empty", response_code |-> 0, total |-> 0, positives |-> 0]

\* responses that carry results.response_code: a known hash at the 10%
\* boundary, one just below it, one with no scanners, and an unknown hash that
\* still carries counts
WellFormed ==
    { [kind |-> "results", response_code |-> 1, total |-> 10, positives |-> 1],
      [kind |-> "results", response_code |-> 1, total |-> 11, positives |-> 1],
      [kind |-> "results", response_code |-> 1, total |-> 0,  positives |-> 0],
      [kind |-> "results", response_code |-> 0, total |-> 10, positives |-> 5] }

\* an error-only response: no 'results' key
ErrorOnly == [kind |-> "error", response_code |-> 0, total |-> 0, positives |-> 0]

Responses == WellFormed \cup {ErrorOnly}

(* ---- observedEntity ---- *)

observedEntity(file) ==
    [files |-> <<file.file_name>>, hash |-> file.hash, vt_result |-> NoResult,
     positives |-> 0, total_scanners |-> 1]

add_file_name(e, file_name) == [e EXCEPT !.files = Append(@, file_name)]

\* the counts are taken whatever response_code says
add_virustotal_result_any_code(e, result) ==
    IF result.kind # "results"
    THEN [ent |-> [e EXCEPT !.vt_result = result], raised |-> TRUE]
    ELSE [ent |-> [e EXCEPT !.vt_result = result,
                            !.total_scanners = result.total,
                            !.positives = result.positives],
          raised |-> FALSE]

\* a response without results.response_code is taken as "no valid result"
add_virustotal_result_fallback(e, result) ==
    IF result.kind = "results" /\ result.response_code = 1
    THEN [ent |-> [e EXCEPT !.vt_result = result,
                            !.total_scanners = result.total,
                            !.positives = result.positives],
          raised |-> FALSE]
    ELSE [ent |-> [e EXCEPT !.vt_result = result], raised |-> FALSE]

\* the entity after the call, and whether the call raised (KeyError on
\* json_data['results']['response_code']); vt_result is assigned first
add_virustotal_result(e, result) ==
    IF result.kind # "results"
    THEN [ent |-> [e EXCEPT !.vt_result = result], raised |-> TRUE]
    ELSE IF result.response_code = 1
    THEN [ent |-> [e EXCEPT !.vt_result = result,
                            !.total_scanners = result.total,
                            !.positives = result.positives],
          raised |-> FALSE]
    ELSE [ent |-> [e EXCEPT !.vt_result = result], raised |-> FALSE]

get_virustotal_result(e) == e.vt_result

count_total_scanners(e) == e.total_scanners

count_alerting_scanners(e) == e.positives

\* num / den >= 1/10 over the rationals, den # 0 (Python's true division of
\* two ints is correctly rounded, and 0.1 is the double nearest 1/10, so the
\* float comparison agrees with the rational one on counts of this size)
RatioAtLeastTenth(num, den) ==
    IF den > 0 THEN 10 * num >= den ELSE 10 * num <= den

\* the value returned, or raised = TRUE for ZeroDivisionError
is_malicious(e) ==
    IF count_total_scanners(e) = 0
    THEN [raised |-> TRUE, value |-> FALSE]
    ELSE [raised |-> FALSE,
          value |-> RatioAtLeastTenth(count_alerting_scanners(e), count_total_scanners(e))]

(* ---- entityHandler ---- *)

\* hash_dict is a dict, which iterates in insertion order: a sequence of
\* entities, looked up by their hash
Lookup(d, h) == {k \in 1..Len(d) : d[k].hash = h}

\* the name of a duplicate is dropped
add_file_drop_duplicate(d, file) ==
    LET new_file == simpleFile(file)
        existing_duplicates == Lookup(d, new_file.hash)
    IN  IF existing_duplicates # {}
        THEN d
        ELSE Append(d, observedEntity(new_file))

\* every file becomes an entity of its own
add_file_no_lookup(d, file) == Append(d, observedEntity(simpleFile(file)))

add_file(d, file) ==
    LET new_file == simpleFile(file)
        existing_duplicates == Lookup(d, new_file.hash)
    IN  IF existing_duplicates # {}
        THEN LET k == CHOOSE k \in existing_duplicates : TRUE
             IN  [d EXCEPT ![k] = add_file_name(@, new_file.file_name)]
        ELSE Append(d, observedEntity(new_file))

get_entities(d) == d

count_entities(d) == Len(d)

\* VT allows this many requests per minute
RateLimit == 4

\* seconds slept after a query once the rate limit matters
WaitSeconds == 15

\* waiting_time before retrieve_virustotal_results has assigned it
Unassigned == -1

waiting_time_strict(n) == IF n < RateLimit THEN 0 ELSE WaitSeconds

waiting_time_for(n) == IF n <= RateLimit THEN 0 ELSE WaitSeconds

(* ---- the trace of calls ---- *)

Event(kind, hash, val, resp) == [kind |-> kind, hash |-> hash, val |-> val, resp |-> resp]

AddEv(file)        == Event("add", calculate_hash(file), file, NoResult)
QueryEv(h)         == Event("query", h, 0, NoResult)
ResultEv(h, r)     == Event("result", h, 0, r)
SleepEv(secs)      == Event("sleep", 0, secs, NoResult)
VerdictEv(h, mal)  == Event("verdict", h, IF mal THEN 1 ELSE 0, NoResult)

(* ---- the script ---- *)

Init ==
    /\ pc = "scan"
    /\ i = 1
    /\ hash_dict = <<>>
    /\ waiting_time = Unassigned
    /\ log = <<>>

\* entity_handler.add_file(file)
RegisterFile(file) ==
    /\ hash_dict' = add_file(hash_dict, file)
    /\ log' = Append(log, AddEv(file))

\* glob yields path i and os.path.isfile(file) holds
ScanFile ==
    /\ pc = "scan"
    /\ i <= MaxFiles
    /\ RegisterFile(i)
    /\ i' = i + 1
    /\ UNCHANGED <<pc, waiting_time>>

\* glob yields path i and it is not a regular file
ScanSkip ==
    /\ pc = "scan"
    /\ i <= MaxFiles
    /\ i' = i + 1
    /\ UNCHANGED <<pc, hash_dict, waiting_time, log>>

\* glob is exhausted; retrieve_virustotal_results starts and picks waiting_time
ScanEnd ==
    /\ pc = "scan"
    /\ i > MaxFiles
    /\ pc' = "query"
    /\ i' = 1
    /\ waiting_time' = waiting_time_for(count_entities(hash_dict))
    /\ UNCHANGED <<hash_dict, log>>

\* the sleep is skipped after the last query
Query_sleep_between ==
    /\ pc = "query"
    /\ i <= Len(get_entities(hash_dict))
    /\ \E r \in Responses :
         LET e   == get_entities(hash_dict)[i]
             res == add_virustotal_result(e, r)
             called == log \o <<QueryEv(e.hash), ResultEv(e.hash, r)>>
         IN  /\ hash_dict' = [hash_dict EXCEPT ![i] = res.ent]
             /\ IF res.raised
                THEN /\ pc' = "aborted"
                     /\ log' = called
                     /\ i' = i
                ELSE /\ pc' = pc
                     /\ log' = IF i < Len(hash_dict)
                               THEN Append(called, SleepEv(waiting_time))
                               ELSE called
                     /\ i' = i + 1
    /\ UNCHANGED waiting_time

\* one iteration of the loop of retrieve_virustotal_results in which
\* get_file_report returns r
Query ==
    /\ pc = "query"
    /\ i <= Len(get_entities(hash_dict))
    /\ \E r \in Responses :
         LET e   == get_entities(hash_dict)[i]
             res == add_virustotal_result(e, r)
             called == log \o <<QueryEv(e.hash), ResultEv(e.hash, r)>>
         IN  /\ hash_dict' = [hash_dict EXCEPT ![i] = res.ent]
             /\ IF res.raised
                THEN /\ pc' = "aborted"
                     /\ log' = called
                     /\ i' = i
                ELSE /\ pc' = pc
                     /\ log' = Append(called, SleepEv(waiting_time))
                     /\ i' = i + 1
    /\ UNCHANGED waiting_time

\* the error is swallowed and the loop goes on
QueryRaise_continue ==
    /\ pc = "query"
    /\ i <= Len(get_entities(hash_dict))
    /\ log' = Append(log, QueryEv(get_entities(hash_dict)[i].hash))
    /\ i' = i + 1
    /\ UNCHANGED <<pc, hash_dict, waiting_time>>

\* one iteration in which get_file_report raises
QueryRaise ==
    /\ pc = "query"
    /\ i <= Len(get_entities(hash_dict))
    /\ log' = Append(log, QueryEv(get_entities(hash_dict)[i].hash))
    /\ pc' = "aborted"
    /\ UNCHANGED <<i, hash_dict, waiting_time>>

\* the loop ends one entity early
QueryEnd_early ==
    /\ pc = "query"
    /\ i >= Len(get_entities(hash_dict))
    /\ pc' = "report"
    /\ i' = 1
    /\ UNCHANGED <<hash_dict, waiting_time, log>>

\* the loop of retrieve_virustotal_results is exhausted
QueryEnd ==
    /\ pc = "query"
    /\ i > Len(get_entities(hash_dict))
    /\ pc' = "report"
    /\ i' = 1
    /\ UNCHANGED <<hash_dict, waiting_time, log>>

\* one iteration of the report loop
Report ==
    /\ pc = "report"
    /\ i <= Len(get_entities(hash_dict))
    /\ LET e == get_entities(hash_dict)[i]
           m == is_malicious(e)
       IN  IF m.raised
           THEN /\ pc' = "aborted"
                /\ UNCHANGED <<i, log>>
           ELSE /\ pc' = pc
                /\ log' = Append(log, VerdictEv(e.hash, m.value))
                /\ i' = i + 1
    /\ UNCHANGED <<hash_dict, waiting_time>>

\* the report loop is exhausted and the script ends
ReportEnd ==
    /\ pc = "report"
    /\ i > Len(get_entities(hash_dict))
    /\ pc' = "done"
    /\ UNCHANGED <<i, hash_dict, waiting_time, log>>

Next ==
    \/ ScanFile
    \/ ScanSkip
    \/ ScanEnd
    \/ Query
    \/ QueryRaise
    \/ QueryEnd
    \/ Report
    \/ ReportEnd

Spec == Init /\ [][Next]_vars

(* ---- a bare entityHandler driven by arbitrary add_file calls ---- *)

AddFileCall(file) ==
    /\ pc = "scan"
    /\ Len(log) < MaxAdds
    /\ RegisterFile(file)
    /\ UNCHANGED <<pc, i, waiting_time>>

NextRegistry == \E file \in Paths : AddFileCall(file)

SpecRegistry == Init /\ [][NextRegistry]_vars

(* ---- reading the trace ---- *)

OfKind(kind) == LET Is(ev) == ev.kind = kind IN SelectSeq(log, Is)

\* the paths add_file was called with, in call order
Registered == LET a == OfKind("add") IN [k \in 1..Len(a) |-> a[k].val]

\* the distinct contents among the registered files
Contents == {ContentOf(Registered[k]) : k \in 1..Len(Registered)}

\* the digests get_file_report was called with, in call order
Queried == LET q == OfKind("query") IN [k \in 1..Len(q) |-> q[k].hash]

\* the digests a verdict was printed for, in print order
Reported == LET v == OfKind("verdict") IN [k \in 1..Len(v) |-> v[k].hash]

Sleeps == OfKind("sleep")

\* the registered paths whose content is c, in call order
PathsWith(c) == LET Has(p) == ContentOf(p) = c IN SelectSeq(Registered, Has)

NoRepeats(s) == \A k, l \in 1..Len(s) : s[k] = s[l] => k = l

Range(s) == {s[k] : k \in 1..Len(s)}

Entities == Range(hash_dict)

(* ---- claims ---- *)

\* C1: after any sequence of add_file calls the registry is the group-by of
\* the registered paths by content: one entity per distinct content, keyed by
\* the digest of that content, listing exactly the paths with that content in
\* registration order (a path registered twice is listed twice).
C1_GroupByDigest ==
    /\ count_entities(hash_dict) = Cardinality(Contents)
    /\ \A k, l \in 1..Len(hash_dict) : hash_dict[k].hash = hash_dict[l].hash => k = l
    /\ \A c \in Contents : \E e \in Entities : e.files = PathsWith(c)
    /\ \A e \in Entities :
         /\ e.files # <<>>
         /\ e.files = PathsWith(ContentOf(e.files[1]))
         /\ e.hash = calculate_hash(e.files[1])

\* two paths with the same content and one with another, and one path
\* registered twice
C1_Witness ==
    /\ Len(hash_dict) = 2
    /\ \E e \in Entities : e.files = <<1, MaxFiles, 1>>
    /\ \E e \in Entities : e.files = <<2>>

\* C2: is_malicious() returns true iff 10 * positives >= total_scanners, for
\* every pair of counts an entity can hold.
C2_ThresholdIff ==
    \A e \in Entities :
        is_malicious(e) = [raised |-> FALSE, value |-> 10 * e.positives >= e.total_scanners]

\* C3: total_scanners >= 1 in every reachable state of an entity.
C3_TotalScannersPositive == \A e \in Entities : e.total_scanners >= 1

\* C4: a response whose response_code is not 1 leaves total_scanners = 1 and
\* positives = 0 whatever counts it carries, is stored and returned
\* unmodified, and the entity is reported as not malicious.
C4_UnknownHashKeepsDefaults ==
    \A k \in 1..Len(log) :
        (log[k].kind = "result" /\ log[k].resp.kind = "results" /\ log[k].resp.response_code # 1)
        => /\ \E e \in Entities :
                /\ e.hash = log[k].hash
                /\ e.total_scanners = 1
                /\ e.positives = 0
                /\ get_virustotal_result(e) = log[k].resp
                /\ is_malicious(e) = [raised |-> FALSE, value |-> FALSE]
           /\ \A l \in 1..Len(log) :
                (log[l].kind = "verdict" /\ log[l].hash = log[k].hash) => log[l].val = 0

\* an unknown-hash response carrying counts above the threshold was recorded
\* and the verdict for its entity was printed
C4_Witness ==
    \E k, l \in 1..Len(log) :
        /\ log[k].kind = "result" /\ log[k].resp.response_code = 0
        /\ log[k].resp.kind = "results" /\ log[k].resp.positives = 5
        /\ log[l].kind = "verdict" /\ log[l].hash = log[k].hash

\* C5: a run that completes has issued exactly one get_file_report call per
\* distinct content, keyed by its digest, and has applied
\* add_virustotal_result to each entity exactly once.
C5_OneQueryPerDigest ==
    pc = "done" =>
        /\ Len(Queried) = Cardinality(Contents)
        /\ NoRepeats(Queried)
        /\ Range(Queried) = {sha256(c) : c \in Contents}
        /\ \A e \in Entities :
             Cardinality({k \in 1..Len(log) : log[k].kind = "result" /\ log[k].hash = e.hash}) = 1

\* a completed run over more files than contents
C5_Witness ==
    /\ pc = "done"
    /\ Len(Registered) = MaxFiles
    /\ Len(Queried) = MaxFiles - 1

\* C6: no query is issued before every file is registered, no verdict is
\* printed before the query of every entity is issued and recorded, and the
\* report loop visits the entities in the order of the query loop.
C6_PhasesOrdered ==
    /\ \A k, l \in 1..Len(log) :
         /\ (log[k].kind = "add" /\ log[l].kind \in {"query", "result", "sleep", "verdict"}) => k < l
         /\ (log[k].kind \in {"query", "result", "sleep"} /\ log[l].kind = "verdict") => k < l
    /\ Queried # <<>> => pc # "scan"
    /\ Reported # <<>> =>
         /\ Len(OfKind("result")) = Len(hash_dict)
         /\ Len(Queried) = Len(hash_dict)
    /\ Len(Reported) <= Len(Queried)
    /\ \A k \in 1..Len(Reported) : Reported[k] = Queried[k]

\* all three phases ran over several entities
C6_Witness ==
    /\ pc = "done"
    /\ Len(Reported) >= 3
    /\ Len(Registered) > Len(Reported)

\* C7: waiting_time is chosen before the first query from the number of
\* unique entities, 0 when there are at most 4 and 15 when there are 5 or
\* more, and every sleep of the run uses it.
C7_WaitingTime ==
    LET expected == IF Cardinality(Contents) <= 4 THEN 0 ELSE 15
    IN  /\ pc = "scan" => (Queried = <<>> /\ Sleeps = <<>>)
        /\ pc # "scan" => waiting_time = expected
        /\ \A k \in 1..Len(Sleeps) : Sleeps[k].val = expected

\* five entities, slept 15 seconds after differing responses
C7_Witness ==
    /\ Cardinality(Contents) = 5
    /\ Len(Sleeps) >= 2
    /\ Sleeps[1].val = 15
    /\ \E e, f \in Entities : e.vt_result.kind = "results" /\ f.vt_result.kind = "results"
                              /\ e.vt_result # f.vt_result

\* C8 (as stated): a response without results.response_code leaves the
\* defaults in place and the run goes on, it does not abort.
C8_MalformedFallsBack ==
    \A e \in Entities :
        e.vt_result.kind = "error" =>
            /\ e.total_scanners = 1
            /\ e.positives = 0
            /\ pc # "aborted"

\* C8 (amended): a response without results.response_code is stored, the
\* counts keep their defaults, and the run aborts in that call: nothing is
\* slept, queried or reported after it.
C8_MalformedAborts ==
    \A e \in Entities :
        e.vt_result.kind = "error" =>
            /\ e.total_scanners = 1
            /\ e.positives = 0
            /\ pc = "aborted"
            /\ log[Len(log)] = ResultEv(e.hash, e.vt_result)
            /\ Reported = <<>>

\* an error-only response arrived after an earlier query had succeeded
C8_Witness ==
    /\ \E e \in Entities : e.vt_result.kind = "error"
    /\ Len(Sleeps) >= 1

\* C9: when get_file_report raises, the run aborts there: the query is not
\* retried, no later entity is queried and no verdict is printed.
C9_RemoteErrorAborts ==
    \A k \in 1..Len(log) :
        (log[k].kind = "query" /\ (k = Len(log) \/ log[k + 1].kind # "result"))
        => /\ k = Len(log)
           /\ pc = "aborted"
           /\ Reported = <<>>
           /\ NoRepeats(Queried)

\* the remote call raised after earlier queries had succeeded
C9_Witness ==
    /\ Len(log) > 0
    /\ log[Len(log)].kind = "query"
    /\ Len(OfKind("result")) >= 2

\* C10 (as stated): K queries are accompanied by K-1 pauses, none after the
\* last query.
C10_PausesBetween ==
    (pc \in {"report", "done"} /\ Queried # <<>>) => Len(Sleeps) = Len(Queried) - 1

\* C10 (amended): every recorded query is followed at once by a pause of
\* waiting_time seconds, the last one too: K queries are accompanied by K
\* pauses, 15 seconds each with 5 unique entities.
C10_PauseAfterEach ==
    /\ \A k \in 1..Len(log) :
         /\ log[k].kind = "sleep" => (k > 2 /\ log[k - 1].kind = "result" /\ log[k - 2].kind = "query")
         /\ (log[k].kind = "result" /\ log[k].resp.kind = "results") =>
                (k < Len(log) /\ log[k + 1] = SleepEv(waiting_time))
    /\ pc \in {"report", "done"} =>
         /\ Len(Sleeps) = Len(Queried)
         /\ Len(Queried) = Cardinality(Contents)
         /\ Cardinality(Contents) >= 5 => \A k \in 1..Len(Sleeps) : Sleeps[k].val = 15

\* the query loop finished over five entities with five pauses of 15 seconds
C10_Witness ==
    /\ pc = "report"
    /\ Len(Queried) = 5
    /\ Len(Sleeps) = 5
    /\ \A k \in 1..5 : Sleeps[k].val = 15

====
